---- MODULE Spec2Model ----
(***************************************************************************)
(* Model of the Huffman coding engine of FileZipper                        *)
(* (src/src/filezipper/core.py): HuffmanNode, HuffmanEncoder.compress and  *)
(* HuffmanDecoder.decompress, with the heapq operations they call.         *)
(*                                                                         *)
(* Bytes are integers 0..255, bit strings ('0'/'1' text in the code) are   *)
(* sequences over {0,1}, Python lists and strings are sequences (Python    *)
(* position p is index p+1), dicts are functions.  HuffmanNode objects     *)
(* live in the arena `nodes`; a handle is an index into it, NoNode is      *)
(* Python's None.                                                          *)
(***************************************************************************)
EXTENDS Integers, Sequences, FiniteSets, TLC

\* ---------------------------------------------------------------- bounds
MaxLen == 3
MaxRun == 8
MaxScale == 125
MaxFreshLen == 5
MaxReuseLen == 2
MaxCalls == 3

Symbols == {97, 98, 99}

\* HuffmanNode.__init__ defaults: char=None, left=None, right=None
NoChar == -1
NoNode == 0

EmptyDict == [x \in {} |-> <<>>]

\* ---------------------------------------------------------------- inputs
Run(s, k) == [i \in 1..k |-> s]

SeqsUpTo(n) == UNION {[1..m -> Symbols] : m \in 0..n}

Inputs == SeqsUpTo(MaxLen) \cup {Run(s, k) : s \in Symbols, k \in 1..MaxRun}

\* inputs of the calls on instances whose returned tables the caller keeps:
\* the short ones, and one of three byte values (two-bit codes, so that a
\* cut body can end inside a code)
ReuseInputs == SeqsUpTo(MaxReuseLen) \cup {<<97, 98, 99>>}

\* inputs of a first call over four byte values
FreshSymbols == Symbols \cup {100}

FreshInputs == UNION {[1..m -> FreshSymbols] : m \in 0..MaxFreshLen}

\* b"a"*1000 + b"b"*500 + b"c"*250 + b"d"*125 is SkewedInput(125)
SkewedInput(s) ==
    [i \in 1..(15 * s) |->
        IF i <= 8 * s THEN 97
        ELSE IF i <= 12 * s THEN 98
        ELSE IF i <= 14 * s THEN 99
        ELSE 100]

\* ---------------------------------------------------------------- HuffmanNode
HuffmanNode(char, freq, left, right) ==
    [char |-> char, freq |-> freq, left |-> left, right |-> right]

\* mutant: the comparison turned round, which makes the heap a max-heap
Lt_reversed(ns, a, b) == ns[a].freq > ns[b].freq

\* HuffmanNode.__lt__ on the nodes behind two handles
Lt(ns, a, b) == ns[a].freq < ns[b].freq

\* ---------------------------------------------------------------- heapq
RECURSIVE _siftdown(_, _, _, _, _)
_siftdown(ns, heap, startpos, pos, newitem) ==
    IF pos > startpos
    THEN LET parentpos == (pos - 1) \div 2
             parent == heap[parentpos + 1]
         IN  IF Lt(ns, newitem, parent)
             THEN _siftdown(ns, [heap EXCEPT ![pos + 1] = parent],
                            startpos, parentpos, newitem)
             ELSE [heap EXCEPT ![pos + 1] = newitem]
    ELSE [heap EXCEPT ![pos + 1] = newitem]

RECURSIVE _siftup(_, _, _, _, _)
_siftup(ns, heap, startpos, pos, newitem) ==
    LET endpos == Len(heap)
        childpos == 2 * pos + 1
    IN  IF childpos < endpos
        THEN LET rightpos == childpos + 1
                 c == IF rightpos < endpos
                         /\ ~Lt(ns, heap[childpos + 1], heap[rightpos + 1])
                      THEN rightpos ELSE childpos
             IN  _siftup(ns, [heap EXCEPT ![pos + 1] = heap[c + 1]],
                         startpos, c, newitem)
        ELSE _siftdown(ns, [heap EXCEPT ![pos + 1] = newitem],
                       startpos, pos, newitem)

heappush(ns, heap, item) ==
    _siftdown(ns, Append(heap, item), 0, Len(heap), item)

\* returns the popped handle and the heap left behind
heappop(ns, heap) ==
    LET lastelt == heap[Len(heap)]
        rest == SubSeq(heap, 1, Len(heap) - 1)
    IN  IF rest # <<>>
        THEN [item |-> rest[1],
              heap |-> _siftup(ns, [rest EXCEPT ![1] = lastelt], 0, 0, lastelt)]
        ELSE [item |-> lastelt, heap |-> rest]

\* ---------------------------------------------------------------- HuffmanEncoder
\* Counter(data): counts keyed by byte, kept in first-occurrence order
FirstIndex(data, c) ==
    CHOOSE i \in 1..Len(data) :
        data[i] = c /\ \A j \in 1..(i - 1) : data[j] # c

Count(data, c) == Cardinality({i \in 1..Len(data) : data[i] = c})

RECURSIVE InsertionOrder(_, _)
InsertionOrder(data, keys) ==
    IF keys = {} THEN <<>>
    ELSE LET k == CHOOSE c \in keys :
                    \A e \in keys : FirstIndex(data, c) <= FirstIndex(data, e)
         IN  <<k>> \o InsertionOrder(data, keys \ {k})

_build_frequency_dict(data) ==
    LET order == InsertionOrder(data, {data[i] : i \in 1..Len(data)})
    IN  [i \in 1..Len(order) |-> [char |-> order[i], freq |-> Count(data, order[i])]]

RECURSIVE PushAll(_, _, _)
PushAll(st, frequency, i) ==
    IF i > Len(frequency) THEN st
    ELSE LET ns == Append(st.nodes,
                     HuffmanNode(frequency[i].char, frequency[i].freq, NoNode, NoNode))
         IN  PushAll([nodes |-> ns, heap |-> heappush(ns, st.heap, Len(ns))],
                     frequency, i + 1)

\* mutant: the push loop without the reset of self.heap
_build_min_heap_no_reset(ns, hp, frequency) ==
    PushAll([nodes |-> ns, heap |-> hp], frequency, 1)

\* ns, hp: the nodes and self.heap left by the previous call
_build_min_heap(ns, hp, frequency) ==
    PushAll([nodes |-> <<>>, heap |-> <<>>], frequency, 1)

\* mutant: the first popped node linked as both children
MergeStep_left_twice(ns, hp) ==
    LET p1 == heappop(ns, hp)
        p2 == heappop(ns, p1.heap)
        node1 == p1.item
        node2 == p2.item
        ns2 == Append(ns, HuffmanNode(NoChar, ns[node1].freq + ns[node2].freq,
                                      node1, node1))
    IN  [nodes |-> ns2, heap |-> heappush(ns2, p2.heap, Len(ns2))]

\* mutant: the two popped nodes linked the other way round
MergeStep_swapped(ns, hp) ==
    LET p1 == heappop(ns, hp)
        p2 == heappop(ns, p1.heap)
        node1 == p1.item
        node2 == p2.item
        ns2 == Append(ns, HuffmanNode(NoChar, ns[node1].freq + ns[node2].freq,
                                      node2, node1))
    IN  [nodes |-> ns2, heap |-> heappush(ns2, p2.heap, Len(ns2))]

\* one iteration of the while loop of _merge_nodes
MergeStep(ns, hp) ==
    LET p1 == heappop(ns, hp)
        p2 == heappop(ns, p1.heap)
        node1 == p1.item
        node2 == p2.item
        ns2 == Append(ns, HuffmanNode(NoChar, ns[node1].freq + ns[node2].freq,
                                      node1, node2))
    IN  [nodes |-> ns2, heap |-> heappush(ns2, p2.heap, Len(ns2))]

\* mutant: "0" appended on the way to the right child too
RECURSIVE _build_codes_helper_same_bit(_, _, _, _)
_build_codes_helper_same_bit(ns, node, current_code, st) ==
    IF node = NoNode THEN st
    ELSE IF ns[node].char # NoChar
    THEN LET code == IF current_code = <<>> THEN <<0>> ELSE current_code
         IN  [codes |-> (ns[node].char :> code) @@ st.codes,
              reverse_mapping |-> (code :> ns[node].char) @@ st.reverse_mapping]
    ELSE _build_codes_helper_same_bit(ns, ns[node].right, Append(current_code, 0),
            _build_codes_helper_same_bit(ns, ns[node].left, Append(current_code, 0), st))

RECURSIVE _build_codes_helper(_, _, _, _)
_build_codes_helper(ns, node, current_code, st) ==
    IF node = NoNode THEN st
    ELSE IF ns[node].char # NoChar
    THEN LET code == IF current_code = <<>> THEN <<0>> ELSE current_code
         IN  [codes |-> (ns[node].char :> code) @@ st.codes,
              reverse_mapping |-> (code :> ns[node].char) @@ st.reverse_mapping]
    ELSE _build_codes_helper(ns, ns[node].right, Append(current_code, 1),
            _build_codes_helper(ns, ns[node].left, Append(current_code, 0), st))

\* mutant: the old dict emptied in place, as self.codes.clear() would, so
\* a dict that was self.codes still is
Rebind_in_place(aliased) == aliased

\* self.codes = {} in _build_codes binds the attribute to a new object:
\* whether a dict that was (aliased) or was not self.codes before is
\* self.codes afterwards
Rebind(aliased) == FALSE

\* what a caller sees in the dicts it holds once _build_codes has filled
\* self.codes with cds
Seen(h, cds) ==
    [i \in 1..Len(h) |->
        IF Rebind(h[i].aliased)
        THEN [h[i] EXCEPT !.aliased = TRUE, !.codes = cds]
        ELSE [h[i] EXCEPT !.aliased = FALSE]]

_build_codes(ns, hp) ==
    LET fresh == [codes |-> EmptyDict, reverse_mapping |-> EmptyDict]
    IN  IF hp = <<>> THEN fresh
        ELSE LET root == hp[1]
             IN  IF ns[root].char # NoChar
                 THEN [codes |-> (ns[root].char :> <<0>>),
                       reverse_mapping |-> (<<0>> :> ns[root].char)]
                 ELSE _build_codes_helper(ns, root, <<>>, fresh)

\* ''.join(self.codes[byte] for byte in data), joined by halves
RECURSIVE Join(_, _, _, _)
Join(cds, data, lo, hi) ==
    IF lo > hi THEN <<>>
    ELSE IF lo = hi THEN cds[data[lo]]
    ELSE LET mid == (lo + hi) \div 2
         IN  Join(cds, data, lo, mid) \o Join(cds, data, mid + 1, hi)

_get_encoded_data(cds, data) == Join(cds, data, 1, Len(data))

_pad_encoded_data(encoded) ==
    LET pad == 8 - (Len(encoded) % 8)
    IN  IF pad # 8
        THEN [data |-> encoded \o [i \in 1..pad |-> 0], padding |-> pad]
        ELSE [data |-> encoded, padding |-> pad]

\* int(byte, 2) of an 8-character group
Int2(bits) ==
    bits[1] * 128 + bits[2] * 64 + bits[3] * 32 + bits[4] * 16
    + bits[5] * 8 + bits[6] * 4 + bits[7] * 2 + bits[8]

\* mutant: range() stepping by 1, one byte out per bit
_get_byte_array_per_bit(padded) ==
    [i \in 1..Len(padded) |-> padded[i]]

_get_byte_array(padded) ==
    [i \in 1..(Len(padded) \div 8) |-> Int2(SubSeq(padded, 8 * i - 7, 8 * i))]

\* ---------------------------------------------------------------- HuffmanDecoder
\* f"{byte:08b}"
Format08b(byte) == [i \in 1..8 |-> (byte \div (2 ^ (8 - i))) % 2]

RECURSIVE BitString(_, _)
BitString(bytes, i) ==
    IF i > Len(bytes) THEN <<>>
    ELSE Format08b(bytes[i]) \o BitString(bytes, i + 1)

\* mutant: one padding bit too few removed
_remove_padding_off_by_one(padded, pad) ==
    IF pad > 0 THEN SubSeq(padded, 1, Len(padded) - pad + 1) ELSE padded

_remove_padding(padded, pad) ==
    IF pad > 0 THEN SubSeq(padded, 1, Len(padded) - pad) ELSE padded

\* the for loop of _decode_data: the locals after the last bit
RECURSIVE DecodeLoop(_, _, _, _, _)
DecodeLoop(rm, encoded, i, current_code, decoded) ==
    IF i > Len(encoded) THEN [current_code |-> current_code, decoded_data |-> decoded]
    ELSE LET cc == Append(current_code, encoded[i])
         IN  IF cc \in DOMAIN rm
             THEN DecodeLoop(rm, encoded, i + 1, <<>>, Append(decoded, rm[cc]))
             ELSE DecodeLoop(rm, encoded, i + 1, cc, decoded)

\* mutant: no check of the candidate left after the loop
_decode_data_no_check(rm, encoded) ==
    LET l == DecodeLoop(rm, encoded, 1, <<>>, <<>>)
    IN  [kind |-> "bytes", bytes |-> l.decoded_data, current_code |-> l.current_code]

_decode_data(rm, encoded) ==
    LET l == DecodeLoop(rm, encoded, 1, <<>>, <<>>)
    IN  IF l.current_code # <<>>
        THEN [kind |-> "ValueError", bytes |-> <<>>, current_code |-> l.current_code]
        ELSE [kind |-> "bytes", bytes |-> l.decoded_data, current_code |-> l.current_code]

\* {v: k for k, v in codes.items()}
Invert(cds) ==
    [c \in {cds[s] : s \in DOMAIN cds} |-> CHOOSE s \in DOMAIN cds : cds[s] = c]

\* mutant: no early return for empty compressed_data, so int("", 2) raises
decompress_no_empty_check(rm, compressed_data, cds, cut) ==
    IF compressed_data = <<>>
    THEN [reverse_mapping |-> Invert(cds), kind |-> "ValueError", bytes |-> <<>>,
          current_code |-> <<>>]
    ELSE LET bit_string == BitString(compressed_data, 1)
             pad == Int2(SubSeq(bit_string, 1, 8))
             body == SubSeq(bit_string, 9, Len(bit_string) - cut)
             r == _decode_data(Invert(cds), _remove_padding(body, pad))
         IN  [reverse_mapping |-> Invert(cds), kind |-> r.kind, bytes |-> r.bytes,
              current_code |-> r.current_code]

\* rm: self.reverse_mapping before the call; cut: bits missing from the end
\* of the body that reaches the decoder (0 for an intact body)
decompress(rm, compressed_data, cds, cut) ==
    IF compressed_data = <<>>
    THEN [reverse_mapping |-> rm, kind |-> "bytes", bytes |-> <<>>,
          current_code |-> <<>>]
    ELSE LET bit_string == BitString(compressed_data, 1)
             pad == Int2(SubSeq(bit_string, 1, 8))
             body == SubSeq(bit_string, 9, Len(bit_string) - cut)
             r == _decode_data(Invert(cds), _remove_padding(body, pad))
         IN  [reverse_mapping |-> Invert(cds), kind |-> r.kind, bytes |-> r.bytes,
              current_code |-> r.current_code]

\* the while loop of _merge_nodes run to its end
RECURSIVE MergeAll(_)
MergeAll(st) ==
    IF Len(st.heap) > 1 THEN MergeAll(MergeStep(st.nodes, st.heap)) ELSE st

\* what compress returns on an encoder just constructed
FreshCompress(d) ==
    IF d = <<>> THEN [packed |-> <<>>, codes |-> EmptyDict]
    ELSE LET tree == MergeAll(_build_min_heap(<<>>, <<>>, _build_frequency_dict(d)))
             table == _build_codes(tree.nodes, tree.heap).codes
             padded == _pad_encoded_data(_get_encoded_data(table, d))
         IN  [packed |-> <<padded.padding>> \o _get_byte_array(padded.data),
              codes |-> table]

\* what decompress does on a decoder just constructed
FreshDecompress(packed, cds, k) ==
    LET r == decompress(EmptyDict, packed, cds, k)
    IN  [kind |-> r.kind, bytes |-> r.bytes]

\* ---------------------------------------------------------------- state
VARIABLES
    pc,                   \* position of the single thread of control
    data,                 \* compress: the argument
    frequency,            \* compress: local, Counter(data)
    nodes,                \* the HuffmanNode objects reachable from self.heap
    heap,                 \* HuffmanEncoder.heap
    codes,                \* HuffmanEncoder.codes
    reverse_mapping,      \* HuffmanEncoder.reverse_mapping
    encoded_data,         \* compress: local
    padded_encoded_data,  \* compress: local
    padding,              \* compress: local
    cresult,              \* what compress returned: <<>> or <<[packed, codes]>>
    prev,                 \* the previous return for the same data, when called again
    dec_reverse_mapping,  \* HuffmanDecoder.reverse_mapping
    compressed_data,      \* decompress: the argument
    dcodes,               \* decompress: the codes argument
    cut,                  \* decompress: bits missing from the end of the body
    current_code,         \* _decode_data: local, after the loop
    dresult,              \* what decompress did: <<>> or <<[kind, bytes]>>
    calls,                \* compress calls made so far on this encoder
    held                  \* a code table the caller kept from an earlier compress:
                          \* <<>> or <<[aliased, codes, returned]>>, aliased when
                          \* the dict is the object self.codes is bound to

vars == <<pc, data, frequency, nodes, heap, codes, reverse_mapping, encoded_data,
          padded_encoded_data, padding, cresult, prev, dec_reverse_mapping,
          compressed_data, dcodes, cut, current_code, dresult, calls, held>>

encoderAttrs == <<nodes, heap, codes, reverse_mapping>>
compressLocals == <<data, frequency, encoded_data, padded_encoded_data, padding>>
decoderVars == <<dec_reverse_mapping, compressed_data, dcodes, cut, current_code, dresult>>

CallPoints == {"idle", "compressed", "decompressed"}

\* HuffmanEncoder.__init__ and HuffmanDecoder.__init__
Init ==
    /\ pc = "idle"
    /\ data = <<>>
    /\ frequency = <<>>
    /\ nodes = <<>>
    /\ heap = <<>>
    /\ codes = EmptyDict
    /\ reverse_mapping = EmptyDict
    /\ encoded_data = <<>>
    /\ padded_encoded_data = <<>>
    /\ padding = 0
    /\ cresult = <<>>
    /\ prev = <<>>
    /\ dec_reverse_mapping = EmptyDict
    /\ compressed_data = <<>>
    /\ dcodes = EmptyDict
    /\ cut = 0
    /\ current_code = <<>>
    /\ dresult = <<>>
    /\ calls = 0
    /\ held = <<>>

\* compress, lines 142-145: entry, the empty-input return, the frequency table
Enter(d, before) ==
    /\ calls < MaxCalls
    /\ calls' = calls + 1
    /\ data' = d
    /\ prev' = before
    /\ encoded_data' = <<>>
    /\ padded_encoded_data' = <<>>
    /\ padding' = 0
    /\ compressed_data' = <<>>
    /\ dcodes' = EmptyDict
    /\ cut' = 0
    /\ current_code' = <<>>
    /\ dresult' = <<>>
    /\ IF d = <<>>
       THEN /\ cresult' = <<[packed |-> <<>>, codes |-> EmptyDict]>>
            /\ frequency' = <<>>
            /\ pc' = "compressed"
       ELSE /\ cresult' = <<>>
            /\ frequency' = _build_frequency_dict(d)
            /\ pc' = "build_min_heap"
    /\ UNCHANGED <<encoderAttrs, dec_reverse_mapping, held>>

Compress(d) ==
    /\ pc \in CallPoints
    /\ Enter(d, <<>>)

\* the same input compressed once more on the same encoder
CompressAgain ==
    /\ pc = "compressed"
    /\ Enter(data, <<[data |-> data, packed |-> cresult[1].packed,
                      codes |-> cresult[1].codes]>>)

\* the first compress of a new encoder, on the skewed test input
CompressSkewed(s) ==
    /\ pc = "idle"
    /\ Enter(SkewedInput(s), <<>>)

\* the first compress of a new encoder
CompressFirst(d) ==
    /\ pc = "idle"
    /\ Enter(d, <<>>)

BuildMinHeap ==
    /\ pc = "build_min_heap"
    /\ LET st == _build_min_heap(nodes, heap, frequency)
       IN  /\ nodes' = st.nodes
           /\ heap' = st.heap
    /\ pc' = "merge"
    /\ UNCHANGED <<codes, reverse_mapping, compressLocals, cresult, prev,
                 decoderVars, calls, held>>

MergeNodes ==
    /\ pc = "merge"
    /\ Len(heap) > 1
    /\ LET st == MergeStep(nodes, heap)
       IN  /\ nodes' = st.nodes
           /\ heap' = st.heap
    /\ UNCHANGED <<pc, codes, reverse_mapping, compressLocals, cresult, prev,
                 decoderVars, calls, held>>

MergeDone ==
    /\ pc = "merge"
    /\ ~(Len(heap) > 1)
    /\ pc' = "build_codes"
    /\ UNCHANGED <<encoderAttrs, compressLocals, cresult, prev, decoderVars, calls, held>>

BuildCodes ==
    /\ pc = "build_codes"
    /\ LET st == _build_codes(nodes, heap)
       IN  /\ codes' = st.codes
           /\ reverse_mapping' = st.reverse_mapping
           /\ held' = Seen(held, st.codes)
    /\ pc' = "pack"
    /\ UNCHANGED <<nodes, heap, compressLocals, cresult, prev, decoderVars, calls>>

\* compress, lines 150-159
Pack ==
    /\ pc = "pack"
    /\ LET enc == _get_encoded_data(codes, data)
           padded == _pad_encoded_data(enc)
       IN  /\ encoded_data' = enc
           /\ padded_encoded_data' = padded.data
           /\ padding' = padded.padding
           /\ IF Len(padded.data) % 8 # 0
              THEN /\ cresult' = <<>>
                   /\ pc' = "raised"
              ELSE /\ cresult' = <<[packed |-> <<padded.padding>>
                                                \o _get_byte_array(padded.data),
                                    codes |-> codes]>>
                   /\ pc' = "compressed"
    /\ UNCHANGED <<encoderAttrs, data, frequency, prev, decoderVars, calls, held>>

\* decompress of what compress returned, with the returned code table or the
\* table the encoder holds, the body possibly cut short by k bits
Decompress(k) ==
    /\ pc = "compressed"
    /\ k = 0 \/ Len(cresult[1].packed) > 1
    /\ \E cds \in {cresult[1].codes, codes} :
          /\ LET r == decompress(dec_reverse_mapping, cresult[1].packed, cds, k)
             IN  /\ dec_reverse_mapping' = r.reverse_mapping
                 /\ current_code' = r.current_code
                 /\ dresult' = <<[kind |-> r.kind, bytes |-> r.bytes]>>
          /\ dcodes' = cds
    /\ compressed_data' = cresult[1].packed
    /\ cut' = k
    /\ pc' = "decompressed"
    /\ UNCHANGED <<encoderAttrs, compressLocals, cresult, prev, calls, held>>

\* the caller keeps the code table compress has just returned: self.codes
\* itself (line 159), or the new {} of the empty-input return (line 143)
KeepTable ==
    /\ pc = "compressed"
    /\ held = <<>>
    /\ held' = <<[aliased |-> data # <<>>,
                  codes |-> cresult[1].codes,
                  returned |-> cresult[1].codes]>>
    /\ UNCHANGED <<pc, encoderAttrs, compressLocals, cresult, prev, decoderVars, calls>>

Next ==
    \/ \E d \in Inputs : Compress(d)
    \/ CompressAgain
    \/ BuildMinHeap
    \/ MergeNodes
    \/ MergeDone
    \/ BuildCodes
    \/ Pack
    \/ \E k \in 0..7 : Decompress(k)

Spec == Init /\ [][Next]_vars

NextSkewed ==
    \/ \E s \in 1..MaxScale : CompressSkewed(s)
    \/ BuildMinHeap
    \/ MergeNodes
    \/ MergeDone
    \/ BuildCodes
    \/ Pack

SpecSkewed == Init /\ [][NextSkewed]_vars

NextFresh ==
    \/ \E d \in FreshInputs : CompressFirst(d)
    \/ BuildMinHeap
    \/ MergeNodes
    \/ MergeDone
    \/ BuildCodes
    \/ Pack

SpecFresh == Init /\ [][NextFresh]_vars

\* a body whole, and a body cut short inside a code
ReuseCuts == {0, 2}

NextReuse ==
    \/ \E d \in ReuseInputs : Compress(d)
    \/ KeepTable
    \/ BuildMinHeap
    \/ MergeNodes
    \/ MergeDone
    \/ BuildCodes
    \/ Pack
    \/ \E k \in ReuseCuts : Decompress(k)

SpecReuse == Init /\ [][NextReuse]_vars

TypeOK ==
    /\ pc \in {"idle", "build_min_heap", "merge", "build_codes", "pack",
               "compressed", "decompressed", "raised"}
    /\ Len(cresult) <= 1
    /\ Len(dresult) <= 1

\* ---------------------------------------------------------------- properties
IsPrefix(a, b) == Len(a) <= Len(b) /\ SubSeq(b, 1, Len(a)) = a

IsProperPrefix(a, b) == Len(a) < Len(b) /\ SubSeq(b, 1, Len(a)) = a

Zeros(n) == [i \in 1..n |-> 0]

\* the bits of the packed body, the metadata byte left out
BodyBits(packed) ==
    LET bits == BitString(packed, 1) IN SubSeq(bits, 9, Len(bits))

\* decompress was handed what compress returned: the packed bytes whole and
\* the returned code table
Intact == cut = 0 /\ dcodes = cresult[1].codes

\* C1: round-trip identity.  Whenever decompress has been given the packed
\* bytes and the code table exactly as compress returned them, it returns
\* the bytes that were compressed.
RoundTripIdentity ==
    (pc = "decompressed" /\ Intact)
        => dresult[1] = [kind |-> "bytes", bytes |-> data]

\* C2: for a non-empty input the metadata byte p is in 0..7, equals
\* (8 - L mod 8) mod 8 for the encoded length L, and exactly p zero bits
\* follow the encoded bit string.
PaddingCount ==
    (pc = "compressed" /\ data # <<>>)
        => LET p == cresult[1].packed[1]
               L == Len(encoded_data)
           IN  /\ p \in 0..7
               /\ p = (8 - (L % 8)) % 8
               /\ padded_encoded_data = encoded_data \o Zeros(p)

\* C3 as stated: a body cut short by 1..7 bits always makes decompress raise.
TruncationRaises ==
    (pc = "decompressed" /\ data # <<>> /\ cut \in 1..7
            /\ dcodes = cresult[1].codes)
        => dresult[1].kind = "ValueError"

\* C3 amended: a body cut short by 1..7 bits makes decompress raise exactly
\* when the bits left end inside a code; otherwise it returns a proper
\* prefix of the original bytes, never any other byte sequence.
TruncationRaisesOrPrefix ==
    (pc = "decompressed" /\ data # <<>> /\ cut \in 1..7
            /\ dcodes = cresult[1].codes)
        => /\ dresult[1].kind = "ValueError" <=> current_code # <<>>
           /\ dresult[1].kind # "ValueError"
                => /\ dresult[1].kind = "bytes"
                   /\ IsProperPrefix(dresult[1].bytes, data)

TruncationWitness ==
    /\ pc = "decompressed"
    /\ cut \in 1..7
    /\ dcodes = cresult[1].codes
    /\ Len(data) >= 2
    /\ dresult[1].kind = "bytes"
    /\ dresult[1].bytes # <<>>

\* C4: in the code table compress returns for a non-empty input, no
\* symbol's code is a prefix of, or equal to, another symbol's code.
PrefixFree ==
    (pc = "compressed" /\ data # <<>>)
        => \A s, t \in DOMAIN cresult[1].codes :
              s # t => ~IsPrefix(cresult[1].codes[s], cresult[1].codes[t])

PrefixFreeWitness ==
    /\ pc = "compressed"
    /\ Cardinality(DOMAIN cresult[1].codes) = 3

\* C5: compressing the same input once more on the same encoder returns
\* the same packed bytes and the same code table, equal-weight nodes
\* included.
Determinism ==
    (pc = "compressed" /\ prev # <<>>)
        => /\ cresult[1].packed = prev[1].packed
           /\ cresult[1].codes = prev[1].codes

DeterminismWitness ==
    /\ pc = "compressed"
    /\ prev # <<>>
    /\ \E i, j \in 1..Len(frequency) :
          i # j /\ frequency[i].freq = frequency[j].freq

\* C6: decompress returns bytes only if the candidate code is empty after
\* the last bit; with a candidate left over it raises and hands out none of
\* the bytes decoded so far.
DecodeTermination ==
    (pc = "decompressed" /\ compressed_data # <<>>)
        => /\ dresult[1].kind = "bytes" => current_code = <<>>
           /\ current_code # <<>>
                => dresult[1] = [kind |-> "ValueError", bytes |-> <<>>]

DecodeTerminationWitness ==
    /\ pc = "decompressed"
    /\ current_code # <<>>
    /\ dresult[1].kind = "ValueError"
    /\ Len(_remove_padding(SubSeq(BodyBits(compressed_data), 1,
                                  Len(BodyBits(compressed_data)) - cut),
                           compressed_data[1])) > Len(current_code)

\* C7: k copies of one byte s compress to the table {s: "0"} and to a body
\* that, with as many trailing bits dropped as the padding count says, is
\* exactly k zero bits.
SingleSymbolCase ==
    (pc = "compressed" /\ data # <<>> /\ \A i \in 1..Len(data) : data[i] = data[1])
        => /\ cresult[1].codes = (data[1] :> <<0>>)
           /\ LET body == BodyBits(cresult[1].packed)
                  p == cresult[1].packed[1]
              IN  SubSeq(body, 1, Len(body) - p) = Zeros(Len(data))

\* C8: compress of the empty input returns empty packed bytes and an empty
\* code table; decompress of empty packed bytes returns the empty bytes
\* whatever the code table.
EmptyInput ==
    /\ (pc = "compressed" /\ data = <<>>)
          => cresult = <<[packed |-> <<>>, codes |-> EmptyDict]>>
    /\ (pc = "decompressed" /\ compressed_data = <<>>)
          => dresult = <<[kind |-> "bytes", bytes |-> <<>>]>>

EmptyInputWitness ==
    /\ pc = "decompressed"
    /\ data = <<>>
    /\ compressed_data = <<>>
    /\ dcodes # EmptyDict

\* C9: the packed output for 1000 'a', 500 'b', 250 'c', 125 'd' is shorter
\* than the 1875 input bytes.
CompressionRatio ==
    (pc = "compressed" /\ data = SkewedInput(125))
        => Len(cresult[1].packed) < 1875

CompressionRatioWitness ==
    /\ pc = "compressed"
    /\ Len(data) = 1875
    /\ Count(data, 97) = 1000
    /\ Count(data, 100) = 125
    /\ Len(cresult[1].packed) = 392

\* the tree under a handle: its leaves' bytes left to right, and the number
\* of its internal nodes
RECURSIVE Leaves(_, _)
Leaves(ns, h) ==
    IF h = NoNode THEN <<>>
    ELSE IF ns[h].char # NoChar THEN <<ns[h].char>>
    ELSE Leaves(ns, ns[h].left) \o Leaves(ns, ns[h].right)

RECURSIVE Internals(_, _)
Internals(ns, h) ==
    IF h = NoNode THEN {}
    ELSE IF ns[h].char # NoChar THEN {}
    ELSE {h} \cup Internals(ns, ns[h].left) \cup Internals(ns, ns[h].right)

\* C10: when _merge_nodes has finished the heap holds one node; with n >= 2
\* distinct bytes the tree under it has n leaves, one per distinct byte, and
\* n-1 internal nodes, each with both children; with n = 1 the root is the
\* one leaf and nothing was merged.
TreeShape ==
    pc = "build_codes"
        => LET n == Cardinality({data[i] : i \in 1..Len(data)})
               root == heap[1]
               leaves == Leaves(nodes, root)
               internals == Internals(nodes, root)
           IN  /\ Len(heap) = 1
               /\ n >= 2 =>
                    /\ Len(leaves) = n
                    /\ {leaves[i] : i \in 1..n} = {data[i] : i \in 1..Len(data)}
                    /\ Cardinality(internals) = n - 1
                    /\ \A h \in internals :
                          nodes[h].left # NoNode /\ nodes[h].right # NoNode
               /\ n = 1 =>
                    /\ nodes[root].char = data[1]
                    /\ nodes[root].left = NoNode /\ nodes[root].right = NoNode
                    /\ Len(nodes) = 1

TreeShapeWitness ==
    /\ pc = "build_codes"
    /\ Len(frequency) = 3
    /\ nodes[heap[1]].char = NoChar

\* the handles in a heap, and the sum of their nodes' weights
Handles(hp) == {hp[i] : i \in 1..Len(hp)}

RECURSIVE HeapWeight(_, _, _)
HeapWeight(ns, hp, i) ==
    IF i > Len(hp) THEN 0 ELSE ns[hp[i]].freq + HeapWeight(ns, hp, i + 1)

\* what one iteration of the merge loop did between two states
MergedTwoLowest ==
    LET new == Len(nodes) + 1
        l == nodes'[new].left
        r == nodes'[new].right
    IN  /\ Len(nodes') = new
        /\ SubSeq(nodes', 1, Len(nodes)) = nodes
        /\ l \in Handles(heap) /\ r \in Handles(heap) /\ l # r
        /\ \A h \in Handles(heap) : nodes[l].freq <= nodes[h].freq
        /\ \A h \in Handles(heap) \ {l} : nodes[r].freq <= nodes[h].freq
        /\ nodes[l].freq <= nodes[r].freq
        /\ nodes'[new].char = NoChar
        /\ nodes'[new].freq = nodes[l].freq + nodes[r].freq
        /\ Len(heap') = Len(heap) - 1
        /\ Handles(heap') = (Handles(heap) \ {l, r}) \cup {new}

Words(n) == UNION {[1..k -> {0, 1}] : k \in 1..n}

IsPrefixFree(c) ==
    \A s, t \in DOMAIN c : s # t => ~IsPrefix(c[s], c[t])

\* the codeword lengths some prefix-free binary code has (Kraft's inequality)
Kraft(lens, maxlen) ==
    LET RECURSIVE Slots(_)
        Slots(S) == IF S = {} THEN 0
                    ELSE LET x == CHOOSE y \in S : TRUE
                         IN  2 ^ (maxlen - lens[x]) + Slots(S \ {x})
    IN  Slots(DOMAIN lens) <= 2 ^ maxlen

\* total encoded length of the input of frequency table freq under codeword
\* lengths lens
RECURSIVE EncodedLength(_, _, _)
EncodedLength(freq, lens, i) ==
    IF i > Len(freq) THEN 0
    ELSE freq[i].freq * lens[freq[i].char] + EncodedLength(freq, lens, i + 1)

\* C13: the code table compress derives for a non-empty input has the
\* least total encoded length of all prefix-free codes with non-empty
\* codewords over the input's byte values (codes enumerated outright for up
\* to three byte values, codeword lengths up to twice the alphabet size
\* enumerated through Kraft's inequality for all), and a byte value that
\* occurs strictly more often never has the longer code.
Optimality ==
    (pc = "compressed" /\ data # <<>>)
        => LET table == cresult[1].codes
               alphabet == DOMAIN table
               n == Cardinality(alphabet)
               mine == EncodedLength(frequency, [s \in alphabet |-> Len(table[s])], 1)
           IN  /\ alphabet = {data[i] : i \in 1..Len(data)}
               /\ n <= 3 =>
                    \A c \in [alphabet -> Words(n)] :
                       IsPrefixFree(c) =>
                          mine <= EncodedLength(frequency,
                                     [s \in alphabet |-> Len(c[s])], 1)
               /\ \A lens \in [alphabet -> 1..(2 * n)] :
                     Kraft(lens, 2 * n) => mine <= EncodedLength(frequency, lens, 1)
               /\ \A s, t \in alphabet :
                     Count(data, s) > Count(data, t) => Len(table[s]) <= Len(table[t])

OptimalityWitness ==
    /\ pc = "compressed"
    /\ Cardinality(DOMAIN cresult[1].codes) >= 3
    /\ \E s, t \in DOMAIN cresult[1].codes :
          /\ Count(data, s) > Count(data, t)
          /\ Len(cresult[1].codes[s]) < Len(cresult[1].codes[t])

\* C12: on encoder and decoder instances that served earlier calls, the
\* empty-input and the raising ones included, compress and decompress
\* return what they return on new instances, and a code table the caller
\* kept from an earlier compress still has the contents it was returned
\* with.
NoStateCrossesCalls ==
    /\ pc = "compressed" => cresult[1] = FreshCompress(data)
    /\ pc = "decompressed"
          => dresult[1] = FreshDecompress(compressed_data, dcodes, cut)
    /\ \A i \in 1..Len(held) : held[i].codes = held[i].returned

NoStateCrossesCallsWitness ==
    /\ pc = "compressed"
    /\ calls >= 2
    /\ data # <<>>
    /\ held # <<>>
    /\ held[1].returned # EmptyDict
    /\ held[1].returned # cresult[1].codes
    /\ dec_reverse_mapping # EmptyDict

====
